---- MODULE Spec2Model ----
(***************************************************************************)
(* A model of replay.splitters.user_log_splitter.UserSplitter: the split   *)
(* of an interaction log into train and test, one step of the model per    *)
(* dataframe step of _core_split and of the methods it calls.              *)
(*                                                                         *)
(* A dataframe is a set of rows; a row is a record of its columns plus a   *)
(* field "id", the position of the log row it descends from, so that two   *)
(* rows with equal column values stay two rows (a dataframe is a bag).     *)
(* A Python number is a record [int, n, d]: the value n/d, and whether it  *)
(* is an int (isinstance(x, int)); floats are modelled as exact rationals. *)
(* An Optional value is {} (None / SQL NULL) or a one-element set.         *)
(***************************************************************************)
EXTENDS Integers, Sequences, FiniteSets

\* ---------------------------------------------------------------- bounds
MaxRows == 3
MaxTime == 3

\* ------------------------------------------------------- python numbers
IntVal(n) == [int |-> TRUE, n |-> n, d |-> 1]
FloatVal(n, d) == [int |-> FALSE, n |-> n, d |-> d]

\* a <= b, a < b on rationals with positive denominators
Le(a, b) == a.n * b.d <= b.n * a.d
Lt(a, b) == a.n * b.d < b.n * a.d

\* isinstance(x, int)
IsInt(x) == x.int

\* ------------------------------------------------------------ the inputs
\* User ids are compared for equality only, so the users of a log are named
\* 1, 2, ... in the order they first appear in it; timestamps are compared
\* for order and within one user's events only, so the timestamps of a
\* user's events are 1..m for some m. The split
\* never reads item_id or relevance: a user's events carry the items 1, 2, ...
\* in log order, and a row's relevance is its position in the log.
Users == 1..MaxRows
Times == 1..MaxTime

FirstAppearanceOrder(ut) ==
    \A i \in DOMAIN ut :
        \A u \in 1..(ut[i][1] - 1) : \E j \in 1..(i - 1) : ut[j][1] = u

NoTimeSkipped(ut) ==
    \A i \in DOMAIN ut :
        \A t \in 1..(ut[i][2] - 1) :
            \E j \in DOMAIN ut : ut[j][1] = ut[i][1] /\ ut[j][2] = t

MakeLog(ut) ==
    [i \in DOMAIN ut |->
        [user_id |-> ut[i][1],
         item_id |-> Cardinality({j \in 1..i : ut[j][1] = ut[i][1]}),
         relevance |-> i,
         timestamp |-> ut[i][2]]]

Logs ==
    {MakeLog(ut) :
        ut \in {x \in UNION {[1..n -> Users \X Times] : n \in 0..MaxRows} :
                   FirstAppearanceOrder(x) /\ NoTimeSkipped(x)}}

\* item_test_size: ints and floats, valid and invalid
ItemTestSizes ==
    {IntVal(n) : n \in {-1, 0, 1, 2, 3}}
    \cup {FloatVal(-1, 2), FloatVal(0, 1), FloatVal(1, 3), FloatVal(1, 2),
          FloatVal(2, 3), FloatVal(1, 1), FloatVal(3, 2)}

\* user_test_size: None, ints and floats, valid and invalid
UserTestSizes ==
    {{}}
    \cup {{IntVal(n)} : n \in {0, 1, 2, 3}}
    \cup {{FloatVal(0, 1)}, {FloatVal(1, 3)}, {FloatVal(1, 2)}, {FloatVal(2, 3)},
          {FloatVal(1, 1)}, {FloatVal(6, 5)}}

\* the seeds a caller passes (any integers; these two give different orders)
Seeds == {3, 5}
SeedOptions == {{}} \cup {{s} : s \in Seeds}

VARIABLES
    log,             \* the input log: a sequence of rows
    item_test_size,  \* self.item_test_size
    user_test_size,  \* self.user_test_size ({} is None)
    shuffle,         \* self.shuffle
    seed,            \* self.seed ({} is None)
    pc,              \* where the call of _core_split stands
    mode,            \* which of _split_proportion / _split_quantity runs
    counts,          \* _split_proportion's counts: user_id -> count
    test_users,      \* what _get_test_users returned
    res,             \* the ranked (cached) dataframe
    train,           \* the returned train
    test,            \* the returned test
    err,             \* which parameter a raised ValueError names
    ops,             \* the dataframe operations performed so far, in order
    run,             \* the number of the invocation on this log
    prev,            \* the (train, test) the previous invocation returned
    \* sponge_bob_magic.validation_schemes.user_log_splitter (the older splitter)
    test_size,       \* self.test_size
    splitter_class,  \* RandomUserLogSplitter or ByTimeUserLogSplitter
    called,          \* the method called on it, once it has ended
    raised,          \* the exception the call ended with, or "none"
    returned,        \* the triple the call returned, or <<>>
    \* k_folds
    n_folds,         \* its argument n_folds
    splitter,        \* its argument splitter
    folds_pc,        \* where the generator stands
    dataframe,       \* its dataframe with the column fold
    fold,            \* its loop variable i
    yielded,         \* the (train, test) pairs it has yielded
    \* LinearScenario.research
    tested_params_set,  \* LinearScenario.tested_params_set
    n_jobs,          \* the argument n_jobs of research
    trials_left,     \* the trials of n_trials not yet started
    trial_pc,        \* per job: where its call of objective stands
    attempt,         \* per job: the attempts made by the running trial
    sampled,         \* per job: (lambda_, elastic_net)
    fresh,           \* per job: the loop was left by break
    chosen           \* the trials that set their parameters, in order

userSplitterVars == <<item_test_size, user_test_size, shuffle, pc, mode, counts,
                      test_users, res, train, test, err, ops, run, prev>>
oldSplitterVars == <<test_size, splitter_class, called, raised, returned>>
foldVars == <<n_folds, splitter, folds_pc, dataframe, fold, yielded>>
researchVars == <<tested_params_set, n_jobs, trials_left, trial_pc, attempt,
                  sampled, fresh, chosen>>

vars == <<log, seed, userSplitterVars, oldSplitterVars, foldVars, researchVars>>

params == <<log, item_test_size, user_test_size, shuffle, seed>>

\* what a step of UserSplitter leaves alone
notUserSplitter == <<oldSplitterVars, foldVars, researchVars>>

\* ------------------------------------------------------------ dataframes
Range(s) == {s[i] : i \in DOMAIN s}

\* the log as a dataframe
LogDF(l) ==
    {[id |-> i, user_id |-> l[i].user_id, item_id |-> l[i].item_id,
      relevance |-> l[i].relevance, timestamp |-> l[i].timestamp] : i \in DOMAIN l}

\* df.drop(cols)
Drop(r, cols) == [c \in (DOMAIN r) \ cols |-> r[c]]

\* log.select("user_id").distinct(): the users in order of first occurrence.
\* The order of a dataframe's rows is taken to be a function of the log: the
\* same plan on the same log and the same partitioning gives the same order.
RECURSIVE AllUsers(_)
AllUsers(l) ==
    IF l = <<>> THEN <<>>
    ELSE LET front == AllUsers(SubSeq(l, 1, Len(l) - 1))
             u == l[Len(l)].user_id
         IN IF u \in Range(front) THEN front ELSE Append(front, u)

\* a mutant of UserCounts: the size of the whole log for every user
UserCounts_Total(l) == [u \in Range(AllUsers(l)) |-> Len(l)]

\* log.groupBy("user_id").count()
UserCounts(l) ==
    [u \in Range(AllUsers(l)) |-> Cardinality({i \in DOMAIN l : l[i].user_id = u})]

\* sf.rand(seed): the random column, a function of the seed and of the row's
\* position in the dataframe. Distinct positions get distinct values (doubles
\* drawn from a generator tie with negligible probability).
RandModulus == 7
Rand(s, i) == ((s % RandModulus) * i) % RandModulus

\* a mutant of EffectiveSeeds: self.seed is not passed to rand
EffectiveSeeds_Fresh(sd) == Seeds

\* The seed rand uses: self.seed, or one drawn afresh when self.seed is None.
EffectiveSeeds(sd) == IF sd = {} THEN Seeds ELSE sd

\* sf.row_number().over(Window.partitionBy(part).orderBy(key)): every
\* numbering of ids that numbers each partition 1..size in ascending key
\* order; rows with equal keys are numbered in any order. Built row by row:
\* a row with the greatest key takes any place of its partition after the
\* rows with smaller keys, and the rows it is placed before move up by one.
RECURSIVE RowNumberings(_, _, _)
RowNumberings(ids, part, key) ==
    IF ids = {} THEN {<<>>}
    ELSE LET i == CHOOSE x \in ids : \A y \in ids : key[y] <= key[x]
             rest == ids \ {i}
             same == {j \in rest : part[j] = part[i]}
             first == 1 + Cardinality({j \in same : key[j] < key[i]})
             last == 1 + Cardinality(same)
         IN UNION {{[x \in ids |->
                        IF x = i THEN n
                        ELSE IF x \in same /\ rn[x] >= n THEN rn[x] + 1
                        ELSE rn[x]] : n \in first..last} :
                   rn \in RowNumberings(rest, part, key)}

\* df.withColumn(name, v)
WithColumn(r, name, v) ==
    [c \in (DOMAIN r) \cup {name} |-> IF c = name THEN v ELSE r[c]]

\* ------------------------------------------------------- _get_test_users
\* a mutant of UserTestSizeInvalid: user_test_size <= user_count passes
UserTestSizeInvalid_Le(x, user_count) ==
    IF IsInt(x)
    THEN ~(Le(IntVal(1), x) /\ Le(x, IntVal(user_count)))
    ELSE ~(Lt(x, IntVal(1)) /\ Lt(IntVal(0), x))

\* value_error of _get_test_users for a user_test_size x that is not None
UserTestSizeInvalid(x, user_count) ==
    IF IsInt(x)
    THEN ~(Le(IntVal(1), x) /\ Lt(x, IntVal(user_count)))
    ELSE ~(Lt(x, IntVal(1)) /\ Lt(IntVal(0), x))

\* a mutant of TestUserCount: the fraction is not scaled by the user count
TestUserCount_NoScale(x, user_count) == x

\* test_user_count: the int itself, or all_users.count() * user_test_size
TestUserCount(x, user_count) ==
    IF IsInt(x) THEN x ELSE FloatVal(user_count * x.n, x.d)

\* all_users ranked by rand(seed), filtered by row_num <= test_user_count
SampledUsers(all_users, s, cnt) ==
    LET ids == DOMAIN all_users
        part == [i \in ids |-> 0]
        key == [i \in ids |-> Rand(s, i)]
    IN {{all_users[i] : i \in {j \in ids : Le(IntVal(rn[j]), cnt)}} :
            rn \in RowNumberings(ids, part, key)}

\* ------------------------------------------------- the ranked dataframe
\* a mutant of JoinTestUsers: every row is marked as a test user's
JoinTestUsers_All(l, tu) ==
    {WithColumn(r, "test_user", {1}) : r \in LogDF(l)}

\* log.join(test_users.withColumn("test_user", lit(1)), how="left", on="user_id")
JoinTestUsers(l, tu) ==
    {WithColumn(r, "test_user", IF r.user_id \in tu THEN {1} ELSE {}) : r \in LogDF(l)}

RowIds(df) == {r.id : r \in df}
RowOf(df, i) == CHOOSE r \in df : r.id = i

\* _add_random_partition: the dataframes it can return for seed s
RandomPartition(df, s) ==
    LET ids == RowIds(df)
        part == [i \in ids |-> RowOf(df, i).user_id]
        key == [i \in ids |-> Rand(s, i)]
    IN {{WithColumn(WithColumn(r, "rand", key[r.id]), "row_num", rn[r.id]) : r \in df} :
            rn \in RowNumberings(ids, part, key)}

\* a mutant of TimeKey: timestamps ascending
TimeKey_Asc(r) == r.timestamp

\* the key that orders timestamps descending
TimeKey(r) == 0 - r.timestamp

\* _add_time_partition: the dataframes it can return
TimePartition(df) ==
    LET ids == RowIds(df)
        part == [i \in ids |-> RowOf(df, i).user_id]
        key == [i \in ids |-> TimeKey(RowOf(df, i))]
    IN {{WithColumn(r, "row_num", rn[r.id]) : r \in df} :
            rn \in RowNumberings(ids, part, key)}

\* ----------------------------------------------------------- the filters
\* a mutant of HelperColumns: test_user is not dropped
HelperColumns_NoTestUser == {"rand", "row_num", "count", "frac"}

\* the columns _split_proportion drops, and those _split_quantity drops
HelperColumns == {"rand", "row_num", "count", "frac", "test_user"}
QuantityHelperColumns == {"rand", "row_num", "test_user"}

\* a mutant of QuantityTest: row_num < item_test_size
QuantityTest_Lt(r, size) == Lt(IntVal(r.row_num), size) /\ r.test_user # {}

\* a mutant of QuantityTrain: row_num >= item_test_size
QuantityTrain_Ge(r, size) == Le(size, IntVal(r.row_num)) \/ r.test_user = {}

\* _split_quantity's two filter conditions
QuantityTrain(r, size) == Lt(size, IntVal(r.row_num)) \/ r.test_user = {}
QuantityTest(r, size) == Le(IntVal(r.row_num), size) /\ r.test_user # {}

\* a mutant of WithFrac: ranks counted from 0, frac = (row_num - 1) / count
WithFrac_ZeroBased(df, cnts) ==
    {WithColumn(WithColumn(r, "count", cnts[r.user_id]),
                "frac", FloatVal(r.row_num - 1, cnts[r.user_id])) : r \in df}

\* res.join(counts, on="user_id", how="left").withColumn("frac", row_num / count)
WithFrac(df, cnts) ==
    {WithColumn(WithColumn(r, "count", cnts[r.user_id]),
                "frac", FloatVal(r.row_num, cnts[r.user_id])) : r \in df}

\* a mutant of ProportionTrain: frac >= item_test_size
ProportionTrain_Ge(r, size) == Le(size, r.frac) \/ r.test_user = {}

\* _split_proportion's two filter conditions
ProportionTrain(r, size) == Lt(size, r.frac) \/ r.test_user = {}
ProportionTest(r, size) == Le(r.frac, size) /\ r.test_user # {}

\* ------------------------------------------------------------ _core_split
\* a mutant of InProportionRange: the closed range [0, 1]
InProportionRange_Closed(x) == Le(IntVal(0), x) /\ Le(x, IntVal(1))

InProportionRange(x) == Le(IntVal(0), x) /\ Lt(x, IntVal(1))
InQuantityRange(x) == Le(IntVal(1), x) /\ IsInt(x)

\* the states of the components a specification does not run
UserSplitterIdle ==
    /\ item_test_size = IntVal(0)
    /\ user_test_size = {}
    /\ shuffle = FALSE
    /\ pc = "idle"
    /\ mode = "none"
    /\ counts = <<>>
    /\ test_users = {}
    /\ res = {}
    /\ train = {}
    /\ test = {}
    /\ err = "none"
    /\ ops = <<>>
    /\ run = 1
    /\ prev = <<>>

OldSplitterIdle ==
    /\ test_size = IntVal(0)
    /\ splitter_class = "none"
    /\ called = "idle"
    /\ raised = "none"
    /\ returned = <<>>

FoldsIdle ==
    /\ n_folds = 1
    /\ splitter = "none"
    /\ folds_pc = "idle"
    /\ dataframe = {}
    /\ fold = 0
    /\ yielded = <<>>

ResearchIdle ==
    /\ tested_params_set = {}
    /\ n_jobs = 0
    /\ trials_left = 0
    /\ trial_pc = <<>>
    /\ attempt = <<>>
    /\ sampled = <<>>
    /\ fresh = <<>>
    /\ chosen = <<>>

Init ==
    /\ OldSplitterIdle
    /\ FoldsIdle
    /\ ResearchIdle
    /\ log \in Logs
    /\ item_test_size \in ItemTestSizes
    /\ user_test_size \in UserTestSizes
    /\ shuffle \in BOOLEAN
    /\ seed \in SeedOptions
    /\ pc = "start"
    /\ mode = "none"
    /\ counts = <<>>
    /\ test_users = {}
    /\ res = {}
    /\ train = {}
    /\ test = {}
    /\ err = "none"
    /\ ops = <<>>
    /\ run = 1
    /\ prev = <<>>

\* _core_split: the choice between the two modes, or the ValueError
CoreSplit ==
    /\ pc = "start"
    /\ IF InProportionRange(item_test_size)
       THEN /\ mode' = "proportion"
            /\ pc' = "counts"
            /\ err' = err
       ELSE IF InQuantityRange(item_test_size)
       THEN /\ mode' = "quantity"
            /\ pc' = "get_test_users"
            /\ err' = err
       ELSE /\ mode' = mode
            /\ pc' = "error"
            /\ err' = "item_test_size"
    /\ UNCHANGED <<params, counts, test_users, res, train, test, ops, run, prev>>
    /\ UNCHANGED notUserSplitter

\* _split_proportion, its first statement: counts
SplitProportionCounts ==
    /\ pc = "counts"
    /\ counts' = UserCounts(log)
    /\ ops' = Append(ops, "groupBy_count")
    /\ pc' = "get_test_users"
    /\ UNCHANGED <<params, mode, test_users, res, train, test, err, run, prev>>
    /\ UNCHANGED notUserSplitter

\* a mutant of GetTestUsersOps: value_error is looked at after the sampling
GetTestUsersOps_Late(sized, invalid) ==
    <<"distinct", "count">>
    \o (IF sized THEN <<"rand", "row_number", "filter">> ELSE <<>>)

\* the dataframe operations of _get_test_users, in the order it performs
\* them: sized is user_test_size is not None, invalid is value_error
GetTestUsersOps(sized, invalid) ==
    <<"distinct", "count">>
    \o (IF sized /\ ~invalid THEN <<"rand", "row_number", "filter">> ELSE <<>>)

\* _get_test_users
GetTestUsers ==
    /\ pc = "get_test_users"
    /\ LET all_users == AllUsers(log)
           user_count == Len(all_users)
       IN IF user_test_size # {}
          THEN LET x == CHOOSE v \in user_test_size : TRUE
               IN IF UserTestSizeInvalid(x, user_count)
                  THEN /\ pc' = "error"
                       /\ err' = "user_test_size"
                       /\ ops' = ops \o GetTestUsersOps(TRUE, TRUE)
                       /\ test_users' = test_users
                  ELSE /\ \E s \in EffectiveSeeds(seed) :
                             test_users' \in
                                 SampledUsers(all_users, s, TestUserCount(x, user_count))
                       /\ ops' = ops \o GetTestUsersOps(TRUE, FALSE)
                       /\ pc' = "partition"
                       /\ err' = err
          ELSE /\ test_users' = Range(all_users)
               /\ ops' = ops \o GetTestUsersOps(FALSE, FALSE)
               /\ pc' = "partition"
               /\ err' = err
    /\ UNCHANGED <<params, mode, counts, res, train, test, run, prev>>
    /\ UNCHANGED notUserSplitter

\* _add_random_partition applied to the log joined with the test users
AddRandomPartition ==
    /\ pc = "partition"
    /\ shuffle
    /\ \E s \in EffectiveSeeds(seed) :
          res' \in RandomPartition(JoinTestUsers(log, test_users), s)
    /\ ops' = ops \o <<"join", "rand", "row_number">>
    /\ pc' = "filter"
    /\ UNCHANGED <<params, mode, counts, test_users, train, test, err, run, prev>>
    /\ UNCHANGED notUserSplitter

\* _add_time_partition applied to the log joined with the test users
AddTimePartition ==
    /\ pc = "partition"
    /\ ~shuffle
    /\ res' \in TimePartition(JoinTestUsers(log, test_users))
    /\ ops' = ops \o <<"join", "row_number">>
    /\ pc' = "filter"
    /\ UNCHANGED <<params, mode, counts, test_users, train, test, err, run, prev>>
    /\ UNCHANGED notUserSplitter

\* _split_proportion from the join with counts to its return
SplitProportionFilter ==
    /\ pc = "filter"
    /\ mode = "proportion"
    /\ LET framed == WithFrac(res, counts)
       IN /\ res' = framed
          /\ train' = {Drop(r, HelperColumns) :
                          r \in {q \in framed : ProportionTrain(q, item_test_size)}}
          /\ test' = {Drop(r, HelperColumns) :
                          r \in {q \in framed : ProportionTest(q, item_test_size)}}
    /\ ops' = ops \o <<"join_counts", "frac", "filter", "filter">>
    /\ pc' = "done"
    /\ UNCHANGED <<params, mode, counts, test_users, err, run, prev>>
    /\ UNCHANGED notUserSplitter

\* _split_quantity from the filters to its return
SplitQuantityFilter ==
    /\ pc = "filter"
    /\ mode = "quantity"
    /\ train' = {Drop(r, QuantityHelperColumns) :
                    r \in {q \in res : QuantityTrain(q, item_test_size)}}
    /\ test' = {Drop(r, QuantityHelperColumns) :
                    r \in {q \in res : QuantityTest(q, item_test_size)}}
    /\ ops' = ops \o <<"filter", "filter">>
    /\ pc' = "done"
    /\ UNCHANGED <<params, mode, counts, test_users, res, err, run, prev>>
    /\ UNCHANGED notUserSplitter

Next ==
    \/ CoreSplit
    \/ SplitProportionCounts
    \/ GetTestUsers
    \/ AddRandomPartition
    \/ AddTimePartition
    \/ SplitProportionFilter
    \/ SplitQuantityFilter

Spec == Init /\ [][Next]_vars

\* A second invocation of split on the same splitter and the same log
Reinvoke ==
    /\ pc = "done"
    /\ run = 1
    /\ run' = 2
    /\ prev' = [train |-> train, test |-> test, test_users |-> test_users, res |-> res]
    /\ pc' = "start"
    /\ mode' = "none"
    /\ counts' = <<>>
    /\ test_users' = {}
    /\ res' = {}
    /\ train' = {}
    /\ test' = {}
    /\ ops' = <<>>
    /\ UNCHANGED <<params, err>>
    /\ UNCHANGED notUserSplitter

NextTwice == Next \/ Reinvoke

SpecTwice == Init /\ [][NextTwice]_vars

\* ------------------------------------------------------------ the claims
Done == pc = "done"
Input == LogDF(log)
LogUsers == Range(AllUsers(log))
RowsOf(df, u) == {r \in df : r.user_id = u}
EventCount(u) == Cardinality(RowsOf(Input, u))
TheUserTestSize == CHOOSE v \in user_test_size : TRUE
\* _get_test_users has returned
TestUsersChosen == pc \in {"partition", "filter", "done"}

\* C1: when _core_split returns, train and test are disjoint and together
\* hold every row of the input log, each once, in both modes.
C1_Partition ==
    Done => /\ train \cap test = {}
            /\ train \cup test = Input
            /\ Cardinality(train) + Cardinality(test) = Len(log)

C1_Witness ==
    /\ Done
    /\ mode = "proportion"
    /\ user_test_size # {}
    /\ train # {}
    /\ test # {}
    /\ \E u \in test_users : RowsOf(train, u) # {} /\ RowsOf(test, u) # {}

\* C2: in count mode with item_test_size = n, a test user with k events has
\* exactly n rows in test when n <= k, and all k (none in train) when n > k,
\* whether shuffle is set or not.
C2_CountMode ==
    (Done /\ mode = "quantity") =>
        \A u \in test_users :
            LET k == EventCount(u)
                n == item_test_size.n
            IN /\ n <= k => Cardinality(RowsOf(test, u)) = n
               /\ n > k => /\ Cardinality(RowsOf(test, u)) = k
                           /\ RowsOf(train, u) = {}

C2_Witness ==
    /\ Done
    /\ mode = "quantity"
    /\ shuffle
    /\ item_test_size = IntVal(2)
    /\ \E u \in test_users : EventCount(u) = 2 /\ Cardinality(RowsOf(test, u)) = 2
    /\ \E u \in test_users : EventCount(u) = 1 /\ RowsOf(train, u) = {}

\* C3: in fractional mode with item_test_size = f, a row of a test user is in
\* test exactly when rank / user_event_count <= f, so a test user with k
\* events has floor(k * f) rows in test; with f = 0 test is empty.
C3_FractionMode ==
    (Done /\ mode = "proportion") =>
        LET f == item_test_size
        IN /\ \A q \in res :
                 (Drop(q, HelperColumns) \in test) <=>
                     /\ q.user_id \in test_users
                     /\ Le(FloatVal(q.row_num, EventCount(q.user_id)), f)
           /\ \A u \in test_users :
                 LET k == EventCount(u)
                     t == Cardinality(RowsOf(test, u))
                 IN t * f.d <= k * f.n /\ k * f.n < (t + 1) * f.d
           /\ f.n = 0 => test = {}

C3_Witness ==
    /\ Done
    /\ mode = "proportion"
    /\ item_test_size = FloatVal(2, 3)
    /\ \E u \in test_users : EventCount(u) = 3 /\ Cardinality(RowsOf(test, u)) = 2

\* C4: with shuffle = false, every test row of a test user is at least as
\* recent as every train row of the same user.
C4_MostRecent ==
    (Done /\ ~shuffle) =>
        \A u \in test_users :
            \A t \in RowsOf(test, u), r \in RowsOf(train, u) :
                t.timestamp >= r.timestamp

\* user 1 with items 1, 2, 3 at timestamps 1, 2, 3 and item_test_size = 1:
\* test holds item 3, train items 1 and 2.
C4_Witness ==
    /\ Done
    /\ ~shuffle
    /\ item_test_size = IntVal(1)
    /\ Len(log) = 3
    /\ \A i \in 1..3 : log[i].user_id = 1 /\ log[i].item_id = i /\ log[i].timestamp = i
    /\ {t.item_id : t \in test} = {3}
    /\ {r.item_id : r \in train} = {1, 2}

\* C5: every row of a user outside the candidate test-user set is in train,
\* test holds rows of test users only, and the rows of test users that are
\* not selected are in train.
C5_NonTestUsersInTrain ==
    Done => /\ \A r \in Input : r.user_id \notin test_users => r \in train
            /\ \A t \in test : t.user_id \in test_users
            /\ \A r \in Input : r \notin test => r \in train

C5_Witness ==
    /\ Done
    /\ test # {}
    /\ \E u \in LogUsers \ test_users : RowsOf(train, u) # {}
    /\ \E u \in test_users : RowsOf(train, u) # {}

\* C6: _get_test_users returns all distinct users when user_test_size is
\* None, n users for a valid int n, floor(U * f) users for a valid fraction f
\* of U distinct users; always a subset of the log's users.
C6_TestUsers ==
    TestUsersChosen =>
        LET U == Cardinality(LogUsers)
            c == Cardinality(test_users)
        IN /\ test_users \subseteq LogUsers
           /\ user_test_size = {} => test_users = LogUsers
           /\ user_test_size # {} =>
                 LET x == TheUserTestSize
                 IN IF x.int
                    THEN c = x.n
                    ELSE c * x.d <= U * x.n /\ U * x.n < (c + 1) * x.d

C6_Witness ==
    /\ pc = "partition"
    /\ user_test_size = {FloatVal(2, 3)}
    /\ Cardinality(LogUsers) = 3
    /\ Cardinality(test_users) = 2

\* what C7 calls an invalid user_test_size
C7_Invalid ==
    /\ user_test_size # {}
    /\ LET x == TheUserTestSize
       IN IF x.int
          THEN x.n < 1 \/ x.n >= Cardinality(LogUsers)
          ELSE x.n <= 0 \/ x.n >= x.d

\* C7: with an invalid user_test_size the split ends in a ValueError and
\* returns nothing; with any other user_test_size no ValueError names it.
C7_UserTestSizeValidation ==
    /\ (TestUsersChosen \/ pc = "error") =>
          /\ C7_Invalid => (pc = "error" /\ train = {} /\ test = {} /\ res = {})
          /\ ~C7_Invalid => err # "user_test_size"
    /\ (err = "user_test_size") <=> (pc = "error" /\ mode # "none")

C7_Witness ==
    /\ pc = "error"
    /\ err = "user_test_size"
    /\ user_test_size = {FloatVal(1, 1)}
    /\ Cardinality(LogUsers) = 1

\* C8: _core_split raises for item_test_size exactly when it is negative or
\* is >= 1 and not an int; a value in [0, 1) selects the fractional mode and
\* an int >= 1 the count mode.
C8_ItemTestSizeValidation ==
    pc # "start" =>
        LET x == item_test_size
            negative == x.n < 0
            fraction == 0 <= x.n /\ x.n < x.d
        IN /\ (err = "item_test_size") <=> (negative \/ (x.n >= x.d /\ ~x.int))
           /\ err = "item_test_size" => (pc = "error" /\ mode = "none")
           /\ fraction => mode = "proportion"
           /\ (x.int /\ x.n >= 1) => mode = "quantity"

C8_Witness ==
    /\ pc = "error"
    /\ err = "item_test_size"
    /\ item_test_size = FloatVal(1, 1)

LogSteps == {"distinct", "count", "groupBy_count", "join", "join_counts", "rand",
             "row_number", "frac", "filter"}

\* C10 as stated: when the ValueError for user_test_size is raised, no step
\* that reads or processes the log has been performed.
C10_NoComputationBeforeError ==
    err = "user_test_size" => \A i \in DOMAIN ops : ops[i] \notin LogSteps

\* C10 as amended: when the ValueError for user_test_size is raised, the
\* distinct users have been counted (after the per-user counts were grouped,
\* in fractional mode) and nothing else: no join, no rand, no ranking, no
\* filter, no train or test; and no step follows the error.
C10_OnlyCountsBeforeError ==
    /\ [](err = "user_test_size" =>
            /\ pc = "error"
            /\ ops = (IF mode = "proportion" THEN <<"groupBy_count">> ELSE <<>>)
                         \o <<"distinct", "count">>
            /\ res = {} /\ train = {} /\ test = {})
    /\ [][pc = "error" => FALSE]_vars

C10_Witness ==
    /\ pc = "error"
    /\ err = "user_test_size"
    /\ mode = "proportion"
    /\ ops = <<"groupBy_count", "distinct", "count">>

\* C11: in fractional mode the event of a user with the last rank (row_num
\* equal to the user's event count, frac = 1) goes to train whatever the
\* fraction in [0, 1) is; so every user of the log has a row in train, and a
\* user with one event has no row in test.
C11_LastRankInTrain ==
    (Done /\ mode = "proportion") =>
        \A u \in LogUsers :
            /\ \E q \in RowsOf(res, u) : q.row_num = EventCount(u)
            /\ \A q \in RowsOf(res, u) :
                   q.row_num = EventCount(u) =>
                       /\ q.frac = FloatVal(EventCount(u), EventCount(u))
                       /\ Drop(q, HelperColumns) \in train
                       /\ Drop(q, HelperColumns) \notin test
            /\ RowsOf(train, u) # {}
            /\ EventCount(u) = 1 => RowsOf(test, u) = {}

C11_Witness ==
    /\ Done
    /\ mode = "proportion"
    /\ item_test_size = FloatVal(2, 3)
    /\ \E u \in LogUsers : EventCount(u) = 1 /\ u \in test_users
    /\ \E u \in LogUsers :
           /\ Cardinality(RowsOf(test, u)) = 1
           /\ Cardinality(RowsOf(train, u)) = 1

\* the columns of the log, and the one that identifies a row in the model
LogColumns == {"user_id", "item_id", "relevance", "timestamp"}
Schema(df) == {(DOMAIN r) \ {"id"} : r \in df}

\* C12: train and test have the columns of the log and no others (rand,
\* row_num, count, frac and test_user are dropped, in both modes, with and
\* without shuffle), and each of their rows is a row of the log with its
\* user_id, item_id, relevance and timestamp unchanged.
C12_SameSchema ==
    Done =>
        /\ Schema(Input) \subseteq {LogColumns}
        /\ \A r \in train \cup test :
               /\ (DOMAIN r) \ {"id"} = LogColumns
               /\ \E l \in Input :
                      l.id = r.id /\ \A c \in LogColumns : r[c] = l[c]

C12_Witness ==
    /\ Done
    /\ shuffle
    /\ mode = "proportion"
    /\ train # {}
    /\ test # {}
    /\ \A q \in res : HelperColumns \subseteq DOMAIN q
    /\ Schema(train) = {LogColumns}
    /\ Schema(test) = {LogColumns}

UsersOf(df) == {r.user_id : r \in df}

\* every event of every test user is within the first item_test_size ranks
AllEventsToTest ==
    /\ mode = "quantity"
    /\ \A u \in test_users : Le(IntVal(EventCount(u)), item_test_size)

\* C13: a cold-user split. In count mode with item_test_size at least the
\* event count of every test user, no user is both in train and in test, and
\* the users of test are the test users: user_test_size of them for a count,
\* floor(fraction * distinct users) for a fraction.
C13_ColdUsers ==
    (Done /\ AllEventsToTest) =>
        /\ UsersOf(train) \cap UsersOf(test) = {}
        /\ UsersOf(test) = test_users
        /\ UsersOf(train) = LogUsers \ test_users
        /\ user_test_size # {} =>
               LET x == TheUserTestSize
                   U == Cardinality(LogUsers)
                   c == Cardinality(UsersOf(test))
               IN IF x.int
                  THEN c = x.n
                  ELSE c * x.d <= U * x.n /\ U * x.n < (c + 1) * x.d

C13_Witness ==
    /\ Done
    /\ AllEventsToTest
    /\ item_test_size = IntVal(2)
    /\ user_test_size = {FloatVal(1, 2)}
    /\ Cardinality(LogUsers) = 2
    /\ \E u \in test_users : EventCount(u) = 2
    /\ Cardinality(UsersOf(test)) = 1
    /\ Cardinality(UsersOf(train)) = 1

\* ------------------------------------------------------------------------
\* sponge_bob_magic.validation_schemes.user_log_splitter: the older splitter,
\* which returns (train, predict_input, test)

\* UserLogSplitter._add_random_partition and _add_time_partition
OldRandomPartition(l, s) == RandomPartition(LogDF(l), s)
OldTimePartition(l) == TimePartition(LogDF(l))

\* the ranked log a splitter class works on: self.seed is read by
\* RandomUserLogSplitter only
OldPartition(class, l, sd) ==
    IF class = "random"
    THEN UNION {OldRandomPartition(l, s) : s \in EffectiveSeeds(sd)}
    ELSE OldTimePartition(l)

\* the columns the two methods drop (rand is there for the random class only)
OldQuantityColumns == {"rand", "row_num"}
OldProportionColumns == {"rand", "row_num", "count", "frac"}

\* a mutant of OldProportionTrain: frac >= test_size
OldProportionTrain_Ge(r, size) == Le(size, r.frac)

\* the filter conditions of _split_quantity and of _split_proportion
OldQuantityTrain(r, size) == Lt(size, IntVal(r.row_num))
OldQuantityTest(r, size) == Le(IntVal(r.row_num), size)
OldProportionTrain(r, size) == Lt(size, r.frac)
OldProportionTest(r, size) == Le(r.frac, size)

\* the triples _split_quantity can return
OldSplitQuantity(class, l, sd, size) ==
    {LET old_train == {Drop(r, OldQuantityColumns) :
                          r \in {q \in ranked : OldQuantityTrain(q, size)}}
         old_test == {Drop(r, OldQuantityColumns) :
                         r \in {q \in ranked : OldQuantityTest(q, size)}}
     IN <<old_train, old_train, old_test>> : ranked \in OldPartition(class, l, sd)}

\* the triples _split_proportion can return
OldSplitProportion(class, l, sd, size) ==
    {LET framed == WithFrac(ranked, UserCounts(l))
         old_train == {Drop(r, OldProportionColumns) :
                          r \in {q \in framed : OldProportionTrain(q, size)}}
         old_test == {Drop(r, OldProportionColumns) :
                         r \in {q \in framed : OldProportionTest(q, size)}}
     IN <<old_train, old_train, old_test>> : ranked \in OldPartition(class, l, sd)}

SplitterClasses == {"random", "by_time"}

InitOld ==
    /\ UserSplitterIdle
    /\ FoldsIdle
    /\ ResearchIdle
    /\ log \in Logs
    /\ seed \in SeedOptions
    /\ test_size \in ItemTestSizes
    /\ splitter_class \in SplitterClasses
    /\ called = "none"
    /\ raised = "none"
    /\ returned = <<>>

notOldSplitter == <<log, seed, userSplitterVars, foldVars, researchVars>>

\* UserLogSplitter._core_split. Each branch unpacks the method itself,
\* self._split_proportion or self._split_quantity, which is not called: a
\* method object is not iterable, and the unpacking raises TypeError.
OldCoreSplit ==
    /\ called = "none"
    /\ called' = "_core_split"
    /\ IF Le(IntVal(0), test_size) /\ Le(test_size, IntVal(1))
       THEN raised' = "TypeError"
       ELSE IF Le(IntVal(1), test_size)
            THEN raised' = "TypeError"
            ELSE raised' = "ValueError"
    /\ returned' = <<>>
    /\ UNCHANGED <<test_size, splitter_class>>
    /\ UNCHANGED notOldSplitter

\* RandomUserLogSplitter._split_quantity(log)
RandomSplitQuantity ==
    /\ called = "none"
    /\ splitter_class = "random"
    /\ called' = "_split_quantity"
    /\ returned' \in OldSplitQuantity("random", log, seed, test_size)
    /\ UNCHANGED <<test_size, splitter_class, raised>>
    /\ UNCHANGED notOldSplitter

\* RandomUserLogSplitter._split_proportion(log)
RandomSplitProportion ==
    /\ called = "none"
    /\ splitter_class = "random"
    /\ called' = "_split_proportion"
    /\ returned' \in OldSplitProportion("random", log, seed, test_size)
    /\ UNCHANGED <<test_size, splitter_class, raised>>
    /\ UNCHANGED notOldSplitter

\* ByTimeUserLogSplitter._split_quantity(log)
ByTimeSplitQuantity ==
    /\ called = "none"
    /\ splitter_class = "by_time"
    /\ called' = "_split_quantity"
    /\ returned' \in OldSplitQuantity("by_time", log, seed, test_size)
    /\ UNCHANGED <<test_size, splitter_class, raised>>
    /\ UNCHANGED notOldSplitter

\* ByTimeUserLogSplitter._split_proportion(log)
ByTimeSplitProportion ==
    /\ called = "none"
    /\ splitter_class = "by_time"
    /\ called' = "_split_proportion"
    /\ returned' \in OldSplitProportion("by_time", log, seed, test_size)
    /\ UNCHANGED <<test_size, splitter_class, raised>>
    /\ UNCHANGED notOldSplitter

NextOld ==
    \/ OldCoreSplit
    \/ RandomSplitQuantity
    \/ RandomSplitProportion
    \/ ByTimeSplitQuantity
    \/ ByTimeSplitProportion

SpecOld == InitOld /\ [][NextOld]_vars

\* C14: _split_quantity and _split_proportion of both classes return a
\* triple whose second element is its first (train again), whose train and
\* test are disjoint and together are the log.
C14_TrainTwice ==
    called \in {"_split_quantity", "_split_proportion"} =>
        /\ Len(returned) = 3
        /\ returned[2] = returned[1]
        /\ returned[1] \cap returned[3] = {}
        /\ returned[1] \cup returned[3] = Input

C14_Witness ==
    /\ called = "_split_proportion"
    /\ splitter_class = "by_time"
    /\ test_size = FloatVal(1, 2)
    /\ Len(log) = 3
    /\ Cardinality(returned[2]) = 2
    /\ returned[2] = returned[1]
    /\ Cardinality(returned[3]) = 1

\* C15: _core_split returns the triple of _split_proportion(log) when
\* 0 <= test_size <= 1 and that of _split_quantity(log) when test_size > 1,
\* and raises (a ValueError) for a negative test_size only; with
\* test_size = 1 every event goes to test and train is empty.
C15_Dispatch ==
    called = "_core_split" =>
        /\ raised # "none" <=> Lt(test_size, IntVal(0))
        /\ Lt(test_size, IntVal(0)) => raised = "ValueError"
        /\ (Le(IntVal(0), test_size) /\ Le(test_size, IntVal(1))) =>
               returned \in OldSplitProportion(splitter_class, log, seed, test_size)
        /\ Lt(IntVal(1), test_size) =>
               returned \in OldSplitQuantity(splitter_class, log, seed, test_size)
        /\ (Le(IntVal(1), test_size) /\ Le(test_size, IntVal(1))) =>
               returned = <<{}, {}, Input>>

\* ------------------------------------------------------------------------
\* k_folds: a generator of (train, test) pairs

MaxFolds == 3
FoldCounts == 1..MaxFolds
Splitters == {"user", "item"}

\* a mutant of FoldOf: one fold more than n_folds
FoldOf_OneMore(row_num, n) == row_num % (n + 1)

\* a mutant of FoldOf: ranks counted from 0
FoldOf_ZeroBased(row_num, n) == (row_num - 1) % n

\* row_number() % n_folds
FoldOf(row_num, n) == row_num % n

\* the dataframes with the column fold that k_folds can build for seed s:
\* rand(seed), the rank by rand within the user, modulo n_folds; rand dropped
WithFold(l, s, n) ==
    {{WithColumn(Drop(r, {"rand", "row_num"}), "fold", FoldOf(r.row_num, n)) :
          r \in ranked} : ranked \in RandomPartition(LogDF(l), s)}

FoldTrain(df, i) == {Drop(r, {"fold"}) : r \in {q \in df : q.fold # i}}
FoldTest(df, i) == {Drop(r, {"fold"}) : r \in {q \in df : q.fold = i}}

InitFolds ==
    /\ UserSplitterIdle
    /\ OldSplitterIdle
    /\ ResearchIdle
    /\ log \in Logs
    /\ seed \in SeedOptions
    /\ n_folds \in FoldCounts
    /\ splitter \in Splitters
    /\ folds_pc = "start"
    /\ dataframe = {}
    /\ fold = 0
    /\ yielded = <<>>

notFolds == <<log, seed, userSplitterVars, oldSplitterVars, researchVars>>

\* the body up to the loop: the check of splitter, then the fold column
KFoldsStart ==
    /\ folds_pc = "start"
    /\ IF splitter \notin {"user"}
       THEN /\ folds_pc' = "error"
            /\ dataframe' = dataframe
       ELSE /\ folds_pc' = "loop"
            /\ \E s \in EffectiveSeeds(seed) : dataframe' \in WithFold(log, s, n_folds)
    /\ UNCHANGED <<n_folds, splitter, fold, yielded>>
    /\ UNCHANGED notFolds

\* one iteration of for i in range(n_folds): yield train, test
KFoldsYield ==
    /\ folds_pc = "loop"
    /\ fold < n_folds
    /\ yielded' = Append(yielded, <<FoldTrain(dataframe, fold), FoldTest(dataframe, fold)>>)
    /\ fold' = fold + 1
    /\ UNCHANGED <<n_folds, splitter, folds_pc, dataframe>>
    /\ UNCHANGED notFolds

\* range(n_folds) is exhausted: the generator stops
KFoldsStop ==
    /\ folds_pc = "loop"
    /\ fold >= n_folds
    /\ folds_pc' = "stopped"
    /\ UNCHANGED <<n_folds, splitter, dataframe, fold, yielded>>
    /\ UNCHANGED notFolds

NextFolds ==
    \/ KFoldsStart
    \/ KFoldsYield
    \/ KFoldsStop

SpecFolds == InitFolds /\ [][NextFolds]_vars

\* the folds whose test (whose train) holds the row r
TestFolds(r) == {i \in DOMAIN yielded : r \in yielded[i][2]}
TrainFolds(r) == {i \in DOMAIN yielded : r \in yielded[i][1]}

\* C16: k_folds with splitter = "user" and n_folds = N >= 1 yields N pairs
\* and stops; the train and test of each pair are disjoint and together are
\* the log; each row of the log is in the test of exactly one fold and in
\* the train of the N - 1 others.
C16_FoldsPartition ==
    /\ Len(yielded) <= n_folds
    /\ \A i \in DOMAIN yielded :
           /\ yielded[i][1] \cap yielded[i][2] = {}
           /\ yielded[i][1] \cup yielded[i][2] = Input
    /\ folds_pc = "stopped" =>
           /\ splitter = "user"
           /\ Len(yielded) = n_folds
           /\ \A r \in Input :
                  /\ Cardinality(TestFolds(r)) = 1
                  /\ Cardinality(TrainFolds(r)) = n_folds - 1

C16_Witness ==
    /\ folds_pc = "stopped"
    /\ n_folds = 3
    /\ Len(log) = 3
    /\ \A i \in 1..3 : yielded[i][2] # {}

\* the number of events of user u in the test of fold i (the pair i + 1)
FoldSize(u, i) == Cardinality(RowsOf(yielded[i + 1][2], u))

\* C17: the fold of an event is its user's random rank r (from 1) modulo
\* n_folds: fold i tests as many events of a user with k events as there are
\* ranks r in 1..k with r % n_folds = i. So for a user two folds differ by at
\* most one event, and a user with fewer than n_folds events has none in the
\* test of fold 0.
C17_FoldIsRankModulo ==
    folds_pc = "stopped" =>
        \A u \in LogUsers :
            /\ \A i \in 0..(n_folds - 1) :
                   FoldSize(u, i) =
                       Cardinality({r \in 1..EventCount(u) : r % n_folds = i})
            /\ \A i, j \in 0..(n_folds - 1) :
                   FoldSize(u, i) - FoldSize(u, j) <= 1
            /\ EventCount(u) < n_folds => FoldSize(u, 0) = 0

C17_Witness ==
    /\ folds_pc = "stopped"
    /\ n_folds = 2
    /\ \E u \in LogUsers :
           EventCount(u) = 2 /\ FoldSize(u, 0) = 1 /\ FoldSize(u, 1) = 1
    /\ \E u \in LogUsers :
           EventCount(u) = 1 /\ FoldSize(u, 0) = 0 /\ FoldSize(u, 1) = 1

\* ------------------------------------------------------------------------
\* LinearScenario.research: study.optimize runs n_trials calls of objective
\* on n_jobs threads, which share LinearScenario.tested_params_set

NumAttempts == 10
MaxTrials == 3
MaxJobs == 2
MaxLambda == 2

\* the values the two suggest calls can return within params_grid
Lambdas == 1..MaxLambda
ElasticNets == {0, 1}
ParamPairs == Lambdas \X ElasticNets

Jobs == 1..n_jobs

InitResearch ==
    /\ UserSplitterIdle
    /\ OldSplitterIdle
    /\ FoldsIdle
    /\ log = <<>>
    /\ seed = {}
    /\ tested_params_set = {}
    /\ n_jobs \in 1..MaxJobs
    /\ trials_left \in 1..MaxTrials
    /\ trial_pc = [j \in Jobs |-> "idle"]
    /\ attempt = [j \in Jobs |-> 0]
    /\ sampled = [j \in Jobs |-> <<0, 0>>]
    /\ fresh = [j \in Jobs |-> FALSE]
    /\ chosen = <<>>

notResearch == <<log, seed, userSplitterVars, oldSplitterVars, foldVars>>

\* a thread takes the next trial and enters objective: lambda_, elastic_net = 0, 0
StartTrial(j) ==
    /\ trial_pc[j] = "idle"
    /\ trials_left > 0
    /\ trials_left' = trials_left - 1
    /\ sampled' = [sampled EXCEPT ![j] = <<0, 0>>]
    /\ attempt' = [attempt EXCEPT ![j] = 0]
    /\ fresh' = [fresh EXCEPT ![j] = FALSE]
    /\ trial_pc' = [trial_pc EXCEPT ![j] = "for"]
    /\ UNCHANGED <<tested_params_set, n_jobs, chosen>>
    /\ UNCHANGED notResearch

\* for attempt in range(num_attempts): the two suggest calls, or the end of
\* the range
Suggest(j) ==
    /\ trial_pc[j] = "for"
    /\ IF attempt[j] < NumAttempts
       THEN /\ \E pair \in ParamPairs : sampled' = [sampled EXCEPT ![j] = pair]
            /\ attempt' = [attempt EXCEPT ![j] = attempt[j] + 1]
            /\ trial_pc' = [trial_pc EXCEPT ![j] = "if"]
       ELSE /\ trial_pc' = [trial_pc EXCEPT ![j] = "add"]
            /\ UNCHANGED <<sampled, attempt>>
    /\ UNCHANGED <<tested_params_set, n_jobs, trials_left, fresh, chosen>>
    /\ UNCHANGED notResearch

\* if (lambda_, elastic_net) not in self.tested_params_set: break
TestPair(j) ==
    /\ trial_pc[j] = "if"
    /\ IF sampled[j] \notin tested_params_set
       THEN /\ fresh' = [fresh EXCEPT ![j] = TRUE]
            /\ trial_pc' = [trial_pc EXCEPT ![j] = "add"]
       ELSE /\ fresh' = fresh
            /\ trial_pc' = [trial_pc EXCEPT ![j] = "for"]
    /\ UNCHANGED <<tested_params_set, n_jobs, trials_left, attempt, sampled, chosen>>
    /\ UNCHANGED notResearch

\* self.tested_params_set.add((lambda_, elastic_net)) and set_params
AddPair(j) ==
    /\ trial_pc[j] = "add"
    /\ chosen' = Append(chosen, [pair |-> sampled[j],
                                  attempts |-> attempt[j],
                                  fresh |-> fresh[j],
                                  tested |-> sampled[j] \in tested_params_set])
    /\ tested_params_set' = tested_params_set \cup {sampled[j]}
    /\ trial_pc' = [trial_pc EXCEPT ![j] = "fit"]
    /\ UNCHANGED <<n_jobs, trials_left, attempt, sampled, fresh>>
    /\ UNCHANGED notResearch

\* the fit, the prediction and the metrics of the trial; return hit_rate
Evaluate(j) ==
    /\ trial_pc[j] = "fit"
    /\ trial_pc' = [trial_pc EXCEPT ![j] = "idle"]
    /\ UNCHANGED <<tested_params_set, n_jobs, trials_left, attempt, sampled,
                   fresh, chosen>>
    /\ UNCHANGED notResearch

NextResearch ==
    \/ \E j \in Jobs : StartTrial(j)
    \/ \E j \in Jobs : Suggest(j)
    \/ \E j \in Jobs : TestPair(j)
    \/ \E j \in Jobs : AddPair(j)
    \/ \E j \in Jobs : Evaluate(j)

SpecResearch == InitResearch /\ [][NextResearch]_vars

\* C18: a trial samples at most num_attempts pairs, and the pair it adds to
\* tested_params_set and evaluates was already in the set only if all of its
\* num_attempts samples were; with one job and with several.
C18_RetestOnlyWhenExhausted ==
    \A i \in DOMAIN chosen :
        /\ chosen[i].attempts \in 1..NumAttempts
        /\ chosen[i].pair \in tested_params_set
        /\ chosen[i].tested =>
               chosen[i].attempts = NumAttempts /\ ~chosen[i].fresh

\* the same for trials run one after another
C18_Sequential == n_jobs = 1 => C18_RetestOnlyWhenExhausted

\* a trial that ran alone kept its last sample after num_attempts tested ones
C18_SequentialCase ==
    /\ n_jobs = 1
    /\ \E i \in DOMAIN chosen : chosen[i].tested /\ chosen[i].attempts = NumAttempts

====
